---------------------------- MODULE Spec2Model ----------------------------
(***************************************************************************)
(* Model of the table-state hook useTable                                  *)
(* (src/src/frontend/src/hooks/UseTable.tsx, lines 55-182).                *)
(*                                                                         *)
(* The React state cells of the hook are the variables tableKey,           *)
(* activeFilters, ..., editable.  A cell holds the value most recently     *)
(* handed to its setter.  The callbacks and memos the hook returns were    *)
(* built by the last render and read the values of that render: these are  *)
(* kept in `rendered`.  Render is the re-render React schedules after the  *)
(* calls of one event.  localStorage is `storage`.                         *)
(*                                                                         *)
(* Strings that the code takes apart or builds (table names, table keys,   *)
(* storage keys, serialized values) are sequences of one-character or      *)
(* token strings.  A record object is a TLA+ record whose domain holds     *)
(* "pk" and/or "id" exactly when the object carries that field.            *)
(***************************************************************************)
EXTENDS Integers, Sequences, FiniteSets, TLC

VARIABLES
    mounted,          \* the component using the hook is mounted
    tableName,        \* the hook's argument
    storage,          \* window.localStorage: storage key -> serialized value
    tableKey,         \* useState, line 61
    activeFilters,    \* useLocalStorage, line 69
    expandedRecords,  \* useState, line 81
    selectedRecords,  \* useState, line 92
    recordCount,      \* useState, line 109
    page,             \* useState, line 112
    pageSize,         \* useState, line 113
    hiddenColumns,    \* useLocalStorage, line 116
    searchTerm,       \* useState, line 122
    records,          \* useState, line 125
    isLoading,        \* useState, line 146
    editable,         \* useState, line 148
    effectPending,    \* the mount effect of useLocalStorage has not run yet
    rendered,         \* what the last render captured (closures and memos)
    last,             \* history: the last call, and the cell value it replaced
    lastSet           \* history: per table name, what was last set to persist

vars == <<mounted, tableName, storage, tableKey, activeFilters, expandedRecords,
          selectedRecords, recordCount, page, pageSize, hiddenColumns,
          searchTerm, records, isLoading, editable, effectPending, rendered,
          last, lastSet>>

-----------------------------------------------------------------------------
(* Bounds and input sets *)

MaxRecords == 2
MaxSelected == 2
MaxExpanded == 2
MaxFilters == 2
MaxColumns == 1
MaxPage == 2
MaxCount == 2

DefaultPage == 1
DefaultPageSize == 25
DefaultRecordCount == 0

\* Key values of the sample records; 0 is a key like any other.
Keys == {0, 1}
Payloads == {"a", "b"}

\* Record objects: with pk only, with id only, with both.
PkRecords == [pk : Keys, v : Payloads]
IdRecords == [id : Keys, v : Payloads]
BothRecords == [pk : Keys, id : Keys, v : Payloads]
Records == PkRecords \cup IdRecords \cup BothRecords

RECURSIVE SeqsUpTo(_, _)
SeqsUpTo(S, n) ==
    IF n = 0 THEN {<<>>}
    ELSE LET shorter == SeqsUpTo(S, n - 1)
         IN  shorter \cup {Append(s, x) : s \in shorter, x \in S}

TableNames == {<<"p">>, <<"p", "-", "q">>}
RandomIds == {<<"m", "-", "x">>, <<"m", "-", "y">>}
FilterSpecs == {[name |-> "active", value |-> "1"], [name |-> "part", value |-> "7"]}
ColumnNames == {"ipn", "desc"}
SearchTerms == {<<>>, <<"r">>}
PageSizes == {10, DefaultPageSize}


-----------------------------------------------------------------------------
(* Strings *)

\* String.prototype.replaceAll('-', ''): drops every '-' of the name.
ReplaceAllDashes(name) == SelectSeq(name, LAMBDA c : c # "-")

\* Mutant of generateTableName: the name is kept as it is.
generateTableNameKeepDashes(name, rid) == name \o <<"-">> \o rid

\* generateTableName, with randomId()'s result as `rid`.
generateTableName(name, rid) == ReplaceAllDashes(name) \o <<"-">> \o rid

\* Mutant of FiltersKey: one key for every table.
FiltersKeyShared(name) == <<"inventree-table-filters-">>

\* The template strings that name the two persisted values.
FiltersKey(name) == <<"inventree-table-filters-">> \o name
HiddenColumnsKey(name) == <<"inventree-hidden-table-columns-">> \o name

-----------------------------------------------------------------------------
(* The persisted key-value store behind useLocalStorage *)

\* JSON.stringify of a TableFilter[]: "[" then "{" name value "}" per filter, then "]".
RECURSIVE FilterTokens(_)
FilterTokens(fs) ==
    IF fs = <<>> THEN <<>>
    ELSE <<"{", Head(fs).name, Head(fs).value, "}">> \o FilterTokens(Tail(fs))

SerializeFilters(fs) == <<"[">> \o FilterTokens(fs) \o <<"]">>

\* JSON.parse of such a value.
RECURSIVE ParseFilters(_)
ParseFilters(toks) ==
    IF Len(toks) < 4 THEN <<>>
    ELSE <<[name |-> toks[2], value |-> toks[3]]>>
         \o ParseFilters(SubSeq(toks, 5, Len(toks)))

DeserializeFilters(s) == ParseFilters(SubSeq(s, 2, Len(s) - 1))

\* JSON.stringify / JSON.parse of a string[].
SerializeColumns(cs) == <<"[">> \o cs \o <<"]">>
DeserializeColumns(s) == SubSeq(s, 2, Len(s) - 1)

\* localStorage.setItem
SetItem(store, key, value) ==
    [k \in (DOMAIN store) \cup {key} |-> IF k = key THEN value ELSE store[k]]

\* useLocalStorage's read: the stored value parsed, or defaultValue ([]) when
\* the key holds nothing.
ReadStoredFilters(store, key) ==
    IF key \in DOMAIN store THEN DeserializeFilters(store[key]) ELSE <<>>

ReadStoredColumns(store, key) ==
    IF key \in DOMAIN store THEN DeserializeColumns(store[key]) ELSE <<>>

-----------------------------------------------------------------------------
(* Records *)

HasPk(r) == "pk" \in DOMAIN r
HasId(r) == "id" \in DOMAIN r

\* r.pk === record.pk: undefined on both sides compares equal.
SamePk(r, record) ==
    IF HasPk(r) /\ HasPk(record) THEN r.pk = record.pk
    ELSE ~HasPk(r) /\ ~HasPk(record)

\* _records.findIndex((r) => r.pk === record.pk), as a 1-based position;
\* 0 stands for JavaScript's -1.
FindIndex(recs, record) ==
    IF \E i \in 1..Len(recs) : SamePk(recs[i], record)
    THEN CHOOSE i \in 1..Len(recs) :
            /\ SamePk(recs[i], record)
            /\ \A j \in 1..(i - 1) : ~SamePk(recs[j], record)
    ELSE 0

\* The body of updateRecord, on the records its closure holds.
Upsert(recs, record) ==
    LET index == FindIndex(recs, record)
    IN  IF index >= 1 THEN [recs EXCEPT ![index] = record]
        ELSE Append(recs, record)

\* Mutant of SelectedIdsOf: r.pk || r.id, which passes over a pk of 0
\* (-1 stands for undefined).
SelectedIdsOfFalsy(sel) ==
    [i \in 1..Len(sel) |->
        IF HasPk(sel[i]) /\ sel[i].pk # 0 THEN sel[i].pk
        ELSE IF HasId(sel[i]) THEN sel[i].id ELSE 0 - 1]

\* selectedRecords.map((r) => r.pk ?? r.id)
SelectedIdsOf(sel) ==
    [i \in 1..Len(sel) |-> IF HasPk(sel[i]) THEN sel[i].pk ELSE sel[i].id]

\* selectedRecords.length > 0
HasSelectedOf(sel) == Len(sel) > 0

\* An entry of expandedRecords is a key value or a record object.
KeyEntry(k) == [kind |-> "key", key |-> k]
ObjectEntry(r) == [kind |-> "object", object |-> r]

\* expandedRecords.includes(pk): SameValueZero against each entry; a number
\* equals no object.
Includes(entries, pk) ==
    \E i \in 1..Len(entries) : entries[i].kind = "key" /\ entries[i].key = pk

\* isRowExpanded as built by the last render.
isRowExpanded(pk) == Includes(rendered.expandedRecords, pk)

-----------------------------------------------------------------------------
(* State *)

NoCall(op) == [op |-> op, before |-> <<>>]

InitialRendered ==
    [records |-> <<>>, expandedRecords |-> <<>>, selectedRecords |-> <<>>,
     selectedIds |-> <<>>, hasSelectedRecords |-> FALSE]

\* The state cells after the first render of useTable(name).
FirstRender(name, rid, store) ==
    /\ mounted' = TRUE
    /\ tableName' = name
    /\ tableKey' = generateTableName(name, rid)
    /\ activeFilters' = ReadStoredFilters(store, FiltersKey(name))
    /\ expandedRecords' = <<>>
    /\ selectedRecords' = <<>>
    /\ recordCount' = DefaultRecordCount
    /\ page' = DefaultPage
    /\ pageSize' = DefaultPageSize
    /\ hiddenColumns' = <<>>
    /\ searchTerm' = <<>>
    /\ records' = <<>>
    /\ isLoading' = FALSE
    /\ editable' = FALSE
    /\ effectPending' = TRUE
    /\ rendered' = InitialRendered

Init ==
    \E name \in TableNames, rid \in RandomIds :
        /\ mounted = TRUE
        /\ tableName = name
        /\ storage = <<>>
        /\ tableKey = generateTableName(name, rid)
        /\ activeFilters = ReadStoredFilters(<<>>, FiltersKey(name))
        /\ expandedRecords = <<>>
        /\ selectedRecords = <<>>
        /\ recordCount = DefaultRecordCount
        /\ page = DefaultPage
        /\ pageSize = DefaultPageSize
        /\ hiddenColumns = <<>>
        /\ searchTerm = <<>>
        /\ records = <<>>
        /\ isLoading = FALSE
        /\ editable = FALSE
        /\ effectPending = TRUE
        /\ rendered = InitialRendered
        /\ last = NoCall("none")
        /\ lastSet = [n \in TableNames |-> [filters |-> <<>>, columns |-> <<>>]]

Ready == mounted /\ ~effectPending

-----------------------------------------------------------------------------
(* Variable groups, for the frames of the actions *)

lifecycle == <<mounted, tableName, effectPending>>
persisted == <<storage, activeFilters, hiddenColumns, lastSet>>
paging == <<recordCount, page, pageSize, searchTerm, isLoading, editable>>
rows == <<records, selectedRecords, expandedRecords>>

-----------------------------------------------------------------------------
(* Mounting *)

\* The component mounts: useTable(name) runs for the first time.
Mount(name, rid) ==
    /\ ~mounted
    /\ FirstRender(name, rid, storage)
    /\ last' = NoCall("mount")
    /\ UNCHANGED <<storage, lastSet>>

\* The effect useLocalStorage runs after the first render: hiddenColumns, which
\* does not set getInitialValueInEffect to false, reads its stored value here.
MountEffect ==
    /\ mounted /\ effectPending
    /\ hiddenColumns' = ReadStoredColumns(storage, HiddenColumnsKey(tableName))
    /\ effectPending' = FALSE
    /\ last' = NoCall("mountEffect")
    /\ UNCHANGED <<mounted, tableName, storage, activeFilters, lastSet, tableKey,
                   paging, rows, rendered>>

\* The component unmounts: the state cells are discarded, localStorage stays.
Unmount ==
    /\ Ready
    /\ mounted' = FALSE
    /\ tableName' = <<>>
    /\ tableKey' = <<>>
    /\ activeFilters' = <<>>
    /\ expandedRecords' = <<>>
    /\ selectedRecords' = <<>>
    /\ recordCount' = DefaultRecordCount
    /\ page' = DefaultPage
    /\ pageSize' = DefaultPageSize
    /\ hiddenColumns' = <<>>
    /\ searchTerm' = <<>>
    /\ records' = <<>>
    /\ isLoading' = FALSE
    /\ editable' = FALSE
    /\ effectPending' = FALSE
    /\ rendered' = InitialRendered
    /\ last' = NoCall("unmount")
    /\ UNCHANGED <<storage, lastSet>>

\* React re-renders the hook after the calls of an event: the callbacks are
\* rebuilt over the current cells and the memos whose dependency changed are
\* recomputed.
Render ==
    /\ Ready
    /\ \/ rendered.records # records
       \/ rendered.expandedRecords # expandedRecords
       \/ rendered.selectedRecords # selectedRecords
    /\ rendered' =
         [records |-> records,
          expandedRecords |-> expandedRecords,
          selectedRecords |-> selectedRecords,
          selectedIds |->
              IF selectedRecords # rendered.selectedRecords
              THEN SelectedIdsOf(selectedRecords) ELSE rendered.selectedIds,
          hasSelectedRecords |->
              IF selectedRecords # rendered.selectedRecords
              THEN HasSelectedOf(selectedRecords) ELSE rendered.hasSelectedRecords]
    /\ last' = NoCall("render")
    /\ UNCHANGED <<lifecycle, persisted, tableKey, paging, rows>>

-----------------------------------------------------------------------------
(* The operations of TableState *)

refreshTable(rid) ==
    /\ Ready
    /\ tableKey' = generateTableName(tableName, rid)
    /\ last' = [op |-> "refreshTable", before |-> tableKey]
    /\ UNCHANGED <<lifecycle, persisted, paging, rows, rendered>>

setActiveFilters(filters) ==
    /\ Ready
    /\ storage' = SetItem(storage, FiltersKey(tableName), SerializeFilters(filters))
    /\ activeFilters' = filters
    /\ lastSet' = [lastSet EXCEPT ![tableName].filters = filters]
    /\ last' = NoCall("setActiveFilters")
    /\ UNCHANGED <<lifecycle, hiddenColumns, tableKey, paging, rows, rendered>>

\* Mutant of clearActiveFilters: the cell is emptied, the store is not written.
clearActiveFiltersUnsaved ==
    /\ Ready
    /\ activeFilters' = <<>>
    /\ lastSet' = [lastSet EXCEPT ![tableName].filters = <<>>]
    /\ last' = [op |-> "clearActiveFilters", before |-> activeFilters]
    /\ UNCHANGED <<lifecycle, storage, hiddenColumns, tableKey, paging, rows,
                   rendered>>

clearActiveFilters ==
    /\ Ready
    /\ storage' = SetItem(storage, FiltersKey(tableName), SerializeFilters(<<>>))
    /\ activeFilters' = <<>>
    /\ lastSet' = [lastSet EXCEPT ![tableName].filters = <<>>]
    /\ last' = [op |-> "clearActiveFilters", before |-> activeFilters]
    /\ UNCHANGED <<lifecycle, hiddenColumns, tableKey, paging, rows, rendered>>

setHiddenColumns(columns) ==
    /\ Ready
    /\ storage' = SetItem(storage, HiddenColumnsKey(tableName), SerializeColumns(columns))
    /\ hiddenColumns' = columns
    /\ lastSet' = [lastSet EXCEPT ![tableName].columns = columns]
    /\ last' = NoCall("setHiddenColumns")
    /\ UNCHANGED <<lifecycle, activeFilters, tableKey, paging, rows, rendered>>

setExpandedRecords(entries) ==
    /\ Ready
    /\ expandedRecords' = entries
    /\ last' = NoCall("setExpandedRecords")
    /\ UNCHANGED <<lifecycle, persisted, tableKey, paging, records,
                   selectedRecords, rendered>>

setSelectedRecords(sel) ==
    /\ Ready
    /\ selectedRecords' = sel
    /\ last' = NoCall("setSelectedRecords")
    /\ UNCHANGED <<lifecycle, persisted, tableKey, paging, records,
                   expandedRecords, rendered>>

clearSelectedRecords ==
    /\ Ready
    /\ selectedRecords' = <<>>
    /\ last' = NoCall("clearSelectedRecords")
    /\ UNCHANGED <<lifecycle, persisted, tableKey, paging, records,
                   expandedRecords, rendered>>

\* Mutant of setRecords: also drops the selected records that are not among
\* the new records.
setRecordsPruning(recs) ==
    /\ Ready
    /\ records' = recs
    /\ selectedRecords' =
         SelectSeq(selectedRecords,
                   LAMBDA r : \E j \in 1..Len(recs) : recs[j] = r)
    /\ last' = NoCall("setRecords")
    /\ UNCHANGED <<lifecycle, persisted, tableKey, paging,
                   expandedRecords, rendered>>

setRecords(recs) ==
    /\ Ready
    /\ records' = recs
    /\ last' = NoCall("setRecords")
    /\ UNCHANGED <<lifecycle, persisted, tableKey, paging, selectedRecords,
                   expandedRecords, rendered>>

\* updateRecord copies the records of the render that built it, upserts into
\* the copy and sets the cell to it.
updateRecord(record) ==
    /\ Ready
    /\ Len(Upsert(rendered.records, record)) <= MaxRecords
    /\ records' = Upsert(rendered.records, record)
    /\ last' = NoCall("updateRecord")
    /\ UNCHANGED <<lifecycle, persisted, tableKey, paging, selectedRecords,
                   expandedRecords, rendered>>

setRecordCount(count) ==
    /\ Ready
    /\ recordCount' = count
    /\ last' = NoCall("setRecordCount")
    /\ UNCHANGED <<lifecycle, persisted, tableKey, page, pageSize, searchTerm,
                   isLoading, editable, rows, rendered>>

setPage(p) ==
    /\ Ready
    /\ page' = p
    /\ last' = NoCall("setPage")
    /\ UNCHANGED <<lifecycle, persisted, tableKey, recordCount, pageSize,
                   searchTerm, isLoading, editable, rows, rendered>>

\* Mutant of setPageSize: a new page size also sends the table back to page 1.
setPageSizeResetsPage(size) ==
    /\ Ready
    /\ pageSize' = size
    /\ page' = DefaultPage
    /\ last' = NoCall("setPageSize")
    /\ UNCHANGED <<lifecycle, persisted, tableKey, recordCount,
                   searchTerm, isLoading, editable, rows, rendered>>

setPageSize(size) ==
    /\ Ready
    /\ pageSize' = size
    /\ last' = NoCall("setPageSize")
    /\ UNCHANGED <<lifecycle, persisted, tableKey, recordCount, page,
                   searchTerm, isLoading, editable, rows, rendered>>

setSearchTerm(term) ==
    /\ Ready
    /\ searchTerm' = term
    /\ last' = NoCall("setSearchTerm")
    /\ UNCHANGED <<lifecycle, persisted, tableKey, recordCount, page, pageSize,
                   isLoading, editable, rows, rendered>>

setIsLoading(value) ==
    /\ Ready
    /\ isLoading' = value
    /\ last' = NoCall("setIsLoading")
    /\ UNCHANGED <<lifecycle, persisted, tableKey, recordCount, page, pageSize,
                   searchTerm, editable, rows, rendered>>

setEditable(value) ==
    /\ Ready
    /\ editable' = value
    /\ last' = NoCall("setEditable")
    /\ UNCHANGED <<lifecycle, persisted, tableKey, recordCount, page, pageSize,
                   searchTerm, isLoading, rows, rendered>>

-----------------------------------------------------------------------------
(* Specifications *)

\* The record cache: records that carry a pk or an id.
KeyedRecords == PkRecords \cup IdRecords
RecordLists == SeqsUpTo(KeyedRecords, MaxRecords)

NextRecords ==
    \/ MountEffect
    \/ Render
    \/ \E recs \in RecordLists : setRecords(recs)
    \/ \E record \in KeyedRecords : updateRecord(record)

SpecRecords == Init /\ [][NextRecords]_vars

-----------------------------------------------------------------------------
(* The documented key convention and the reference upsert *)

\* The key of a record: pk, falling back to id when pk is absent.
KeyOf(r) == IF HasPk(r) THEN r.pk ELSE r.id

DistinctKeys(recs) ==
    \A i, j \in 1..Len(recs) : KeyOf(recs[i]) = KeyOf(recs[j]) => i = j

KeyPositions(recs, k) == {i \in 1..Len(recs) : KeyOf(recs[i]) = k}

\* Upsert by key: the entry with the record's key is replaced where it stands,
\* a record with a new key is appended.
RefUpsert(recs, record) ==
    IF KeyPositions(recs, KeyOf(record)) = {} THEN Append(recs, record)
    ELSE [i \in 1..Len(recs) |->
            IF KeyOf(recs[i]) = KeyOf(record) THEN record ELSE recs[i]]

AllIn(recs, S) == \A i \in 1..Len(recs) : recs[i] \in S

-----------------------------------------------------------------------------
(* Claims on the record cache *)

\* Records of one shape: all carry a pk, or all carry only an id.
OneShape(recs, record) ==
    \/ AllIn(Append(recs, record), PkRecords)
    \/ AllIn(Append(recs, record), IdRecords)

\* C1 (as claimed): a call of updateRecord on a rendered records list with
\* pairwise distinct keys leaves the reference upsert of that list: one entry
\* per key, an existing key replaced at its index, a new key appended; so a
\* sequence of calls leaves the reference upsert fold.
C1_UpsertFold ==
    [][\A record \in KeyedRecords :
          (/\ updateRecord(record)
           /\ rendered.records = records
           /\ OneShape(records, record)
           /\ DistinctKeys(records))
          => records' = RefUpsert(records, record)]_vars

\* C2 (as claimed): on records that carry only an id, updateRecord(record)
\* replaces exactly the entry whose id is record.id, appends when there is
\* none, and leaves every entry with another id as it was.
C2_IdOnlyUpsert ==
    [][\A record \in IdRecords :
          (/\ updateRecord(record)
           /\ rendered.records = records
           /\ AllIn(records, IdRecords)
           /\ DistinctKeys(records))
          => IF \E i \in 1..Len(records) : records[i].id = record.id
             THEN /\ Len(records') = Len(records)
                  /\ \A i \in 1..Len(records) :
                        records'[i] = IF records[i].id = record.id
                                      THEN record ELSE records[i]
             ELSE records' = Append(records, record)]_vars

\* C10 (as claimed): a call of updateRecord made after setRecords or after
\* another updateRecord, with no render in between, leaves the records that
\* the calls give when applied one after the other.
C10_CallOrder ==
    [][\A record \in PkRecords :
          (/\ updateRecord(record)
           /\ last.op \in {"setRecords", "updateRecord"}
           /\ AllIn(records, PkRecords)
           /\ DistinctKeys(records))
          => records' = RefUpsert(records, record)]_vars

-----------------------------------------------------------------------------
(* Specification of the selection *)

\* One mount stands for all: nothing below reads the table name or the key.
SampleId == <<"m", "-", "x">>
InitOne ==
    /\ Init
    /\ tableName = <<"p">>
    /\ tableKey = generateTableName(<<"p">>, SampleId)

\* Records to select: every shape; one that carries both fields carries
\* different values in them, so that the choice between the two shows.
Selectable ==
    {r \in Records : r.v = "a" /\ (HasPk(r) /\ HasId(r) => r.pk # r.id)}
SelectionLists == SeqsUpTo(Selectable, MaxSelected)

NextSelection ==
    \/ MountEffect
    \/ Render
    \/ \E sel \in SelectionLists : setSelectedRecords(sel)
    \/ clearSelectedRecords

SpecSelection == InitOne /\ [][NextSelection]_vars

\* C7: the selectedIds of a render are the keys (pk, else id) of its
\* selectedRecords, in the same order, and its hasSelectedRecords says
\* whether that list is non-empty; so both are empty/false once an empty
\* selection is rendered.
C7_SelectedIds ==
    /\ Len(rendered.selectedIds) = Len(rendered.selectedRecords)
    /\ \A i \in 1..Len(rendered.selectedRecords) :
          rendered.selectedIds[i] = KeyOf(rendered.selectedRecords[i])
    /\ rendered.hasSelectedRecords <=> rendered.selectedRecords # <<>>

\* C7 witness: a rendered selection of two records, the first keyed by its id
\* alone, the second by a pk of 0 beside an id.
C7_Witness ==
    /\ last.op = "render"
    /\ Len(rendered.selectedRecords) = 2
    /\ ~HasPk(rendered.selectedRecords[1])
    /\ HasPk(rendered.selectedRecords[2]) /\ HasId(rendered.selectedRecords[2])
    /\ rendered.selectedRecords[2].pk = 0
    /\ rendered.selectedIds = <<rendered.selectedRecords[1].id, 0>>
    /\ rendered.hasSelectedRecords

-----------------------------------------------------------------------------
(* Specification of the rows: the record cache beside the selection *)

\* The rows a caller selects are rows of the records on display.
RowInputs == {r \in PkRecords : r.v = "a"}
RowLists == SeqsUpTo(RowInputs, MaxRecords)
RowSelections == SeqsUpTo(RowInputs, MaxSelected)

NextRows ==
    \/ MountEffect
    \/ Render
    \/ \E recs \in RowLists : setRecords(recs)
    \/ \E record \in RowInputs : updateRecord(record)
    \/ \E sel \in RowSelections :
          /\ rendered.records = records
          /\ \A i \in 1..Len(sel) :
                \E j \in 1..Len(records) : records[j] = sel[i]
          /\ setSelectedRecords(sel)
    \/ clearSelectedRecords

SpecRows == InitOne /\ [][NextRows]_vars

SelectionWithinRecords ==
    \A i \in 1..Len(selectedRecords) :
        \E j \in 1..Len(records) : KeyOf(records[j]) = KeyOf(selectedRecords[i])

\* C3 (as claimed): every selected record's key is the key of an entry of
\* records, in every reachable state.
C3_SelectionSubset == SelectionWithinRecords

\* C3 (amended): selectedRecords changes only through setSelectedRecords and
\* clearSelectedRecords; setRecords and updateRecord leave it as it is.
C3_SelectionFrame ==
    [][selectedRecords' # selectedRecords
          => last'.op \in {"setSelectedRecords", "clearSelectedRecords"}]_vars

\* C3 witness: setRecords has just replaced the records and a record selected
\* before is no longer among them.
C3_Witness ==
    /\ last.op = "setRecords"
    /\ selectedRecords # <<>>
    /\ ~SelectionWithinRecords

-----------------------------------------------------------------------------
(* Specification of the row expansion *)

\* Callers hand setExpandedRecords key values or record objects.
ExpansionEntries ==
    {KeyEntry(k) : k \in Keys} \cup {ObjectEntry(r) : r \in Selectable}
ExpansionLists == SeqsUpTo(ExpansionEntries, MaxExpanded)

NextExpand ==
    \/ MountEffect
    \/ Render
    \/ \E entries \in ExpansionLists : setExpandedRecords(entries)

SpecExpand == InitOne /\ [][NextExpand]_vars

\* The key an entry of the expansion collection stands for.
EntryKey(e) == IF e.kind = "key" THEN e.key ELSE KeyOf(e.object)

\* C6 (as claimed): isRowExpanded(pk) is true exactly when the record of key
\* pk is in the expansion collection of the render, be it there as its key or
\* as the record object; it is false for every pk while nothing was set.
C6_IsRowExpanded ==
    \A pk \in Keys :
        isRowExpanded(pk) <=>
            \E i \in 1..Len(rendered.expandedRecords) :
                EntryKey(rendered.expandedRecords[i]) = pk

-----------------------------------------------------------------------------
(* Specification of the persisted preferences *)

FilterLists == SeqsUpTo(FilterSpecs, MaxFilters)
ColumnLists == SeqsUpTo(ColumnNames, MaxColumns)

\* The random part of the table key plays no part in what is persisted.
InitPersist == Init /\ tableKey = generateTableName(tableName, SampleId)

NextPersist ==
    \/ \E name \in TableNames : Mount(name, SampleId)
    \/ MountEffect
    \/ Unmount
    \/ \E filters \in FilterLists : setActiveFilters(filters)
    \/ clearActiveFilters
    \/ \E columns \in ColumnLists : setHiddenColumns(columns)

SpecPersist == InitPersist /\ [][NextPersist]_vars

\* C5: while the hook is mounted under a table name, activeFilters is what
\* was last set under that name, and so is hiddenColumns once the mount effect
\* has run, across unmounts and mounts; a name nothing was set under reads
\* the empty defaults, and what is set under one name does not show under
\* another.
C5_PersistRoundTrip ==
    mounted =>
        /\ activeFilters = lastSet[tableName].filters
        /\ ~effectPending => hiddenColumns = lastSet[tableName].columns

\* C5 witness: the first render of a later mount has read filters from the
\* store, hidden columns are stored for the name, and the other name has
\* nothing of them.
C5_Witness ==
    /\ mounted /\ effectPending
    /\ activeFilters # <<>>
    /\ lastSet[tableName].columns # <<>>
    /\ \E other \in TableNames :
          /\ other # tableName
          /\ lastSet[other].filters # activeFilters
          /\ lastSet[other].columns # lastSet[tableName].columns

\* C9: after clearActiveFilters, activeFilters is empty whatever it held, and
\* the store holds an empty value for the table name: a mount that reads it
\* reads no filters.
C9_ClearFilters ==
    last.op = "clearActiveFilters" =>
        /\ activeFilters = <<>>
        /\ FiltersKey(tableName) \in DOMAIN storage
        /\ storage[FiltersKey(tableName)] = <<"[", "]">>
        /\ ReadStoredFilters(storage, FiltersKey(tableName)) = <<>>

\* C9 witness: clearActiveFilters has just cleared two active filters.
C9_Witness ==
    /\ last.op = "clearActiveFilters"
    /\ Len(last.before) = MaxFilters

-----------------------------------------------------------------------------
(* Specification of the life cycle: mounts, the table key, the plain setters *)

SampleRow == [pk |-> 0, v |-> "a"]
SampleRows == {<<>>, <<SampleRow>>}
SampleExpansion == {<<>>, <<KeyEntry(0)>>}

NextLifecycle ==
    \/ \E name \in TableNames, rid \in RandomIds : Mount(name, rid)
    \/ MountEffect
    \/ Unmount
    \/ Render
    \/ \E rid \in RandomIds : refreshTable(rid)
    \/ \E recs \in SampleRows : setRecords(recs)
    \/ \E sel \in SampleRows : setSelectedRecords(sel)
    \/ \E entries \in SampleExpansion : setExpandedRecords(entries)
    \/ \E count \in 0..MaxCount : setRecordCount(count)
    \/ \E p \in 1..MaxPage : setPage(p)
    \/ \E size \in PageSizes : setPageSize(size)
    \/ \E term \in SearchTerms : setSearchTerm(term)
    \/ \E value \in BOOLEAN : setIsLoading(value)
    \/ \E value \in BOOLEAN : setEditable(value)

SpecLifecycle == Init /\ [][NextLifecycle]_vars

\* s is t followed by something more.
ProperPrefix(t, s) == Len(s) > Len(t) /\ SubSeq(s, 1, Len(t)) = t

\* The cells that a mount starts from their defaults.
FreshCells ==
    /\ page = 1
    /\ pageSize = 25
    /\ records = <<>>
    /\ recordCount = 0
    /\ selectedRecords = <<>>
    /\ expandedRecords = <<>>
    /\ searchTerm = <<>>
    /\ isLoading = FALSE
    /\ editable = FALSE

C8_FreshMount ==
    (mounted /\ effectPending) =>
        /\ ProperPrefix(tableName \o <<"-">>, tableKey)
        /\ FreshCells

\* C8 (amended): right after a mount under the name N, tableKey is N without
\* its "-" characters, then "-", then a suffix, and every other cell holds
\* its default.
C8_FreshMountStripped ==
    (mounted /\ effectPending) =>
        /\ ProperPrefix(SelectSeq(tableName, LAMBDA c : c # "-") \o <<"-">>, tableKey)
        /\ FreshCells

\* C8 witness: a later mount (the first is the initial state), under a name
\* that holds a "-".
C8_Witness ==
    /\ mounted /\ effectPending
    /\ last.op = "mount"
    /\ \E i \in 1..Len(tableName) : tableName[i] = "-"

-----------------------------------------------------------------------------
(* Specification of the plain setters beside the rest of the table state *)

SampleFilters == {<<>>, <<[name |-> "active", value |-> "1"]>>}
SampleColumns == {<<>>, <<"ipn">>}

NextSetters ==
    \/ MountEffect
    \/ Render
    \/ \E rid \in RandomIds : refreshTable(rid)
    \/ \E filters \in SampleFilters : setActiveFilters(filters)
    \/ \E columns \in SampleColumns : setHiddenColumns(columns)
    \/ \E recs \in SampleRows : setRecords(recs)
    \/ \E sel \in SampleRows : setSelectedRecords(sel)
    \/ \E count \in 0..MaxCount : setRecordCount(count)
    \/ \E p \in 1..MaxPage : setPage(p)
    \/ \E size \in PageSizes : setPageSize(size)
    \/ \E term \in SearchTerms : setSearchTerm(term)
    \/ \E value \in BOOLEAN : setIsLoading(value)
    \/ \E value \in BOOLEAN : setEditable(value)

SpecSetters == InitOne /\ [][NextSetters]_vars

\* What the hook returns besides the six plain fields and tableKey.
restOfTable ==
    <<activeFilters, hiddenColumns, storage, records, selectedRecords,
      expandedRecords, rendered>>

\* C11: a call of setPage, setPageSize, setRecordCount, setSearchTerm,
\* setIsLoading or setEditable changes its own field and no other field of the
\* table state (setPageSize and setSearchTerm keep the page; tableKey, records
\* and the selection stay), and a call of refreshTable changes tableKey only.
C11_SetterFrames ==
    [][/\ last'.op = "setPage" =>
            UNCHANGED <<tableKey, restOfTable, pageSize, recordCount,
                        searchTerm, isLoading, editable>>
       /\ last'.op = "setPageSize" =>
            UNCHANGED <<tableKey, restOfTable, page, recordCount,
                        searchTerm, isLoading, editable>>
       /\ last'.op = "setRecordCount" =>
            UNCHANGED <<tableKey, restOfTable, page, pageSize,
                        searchTerm, isLoading, editable>>
       /\ last'.op = "setSearchTerm" =>
            UNCHANGED <<tableKey, restOfTable, page, pageSize,
                        recordCount, isLoading, editable>>
       /\ last'.op = "setIsLoading" =>
            UNCHANGED <<tableKey, restOfTable, page, pageSize,
                        recordCount, searchTerm, editable>>
       /\ last'.op = "setEditable" =>
            UNCHANGED <<tableKey, restOfTable, page, pageSize,
                        recordCount, searchTerm, isLoading>>
       /\ last'.op = "refreshTable" =>
            UNCHANGED <<restOfTable, page, pageSize, recordCount,
                        searchTerm, isLoading, editable>>]_vars

\* C11 witness: setPageSize has just set a page size other than the default
\* while the table was on page 2 with a search term, records, a selection,
\* filters and hidden columns, and the page is still 2.
C11_Witness ==
    /\ last.op = "setPageSize"
    /\ pageSize # DefaultPageSize
    /\ page = 2
    /\ searchTerm # <<>>
    /\ records # <<>>
    /\ selectedRecords # <<>>
    /\ activeFilters # <<>>
    /\ hiddenColumns # <<>>

-----------------------------------------------------------------------------
(* The whole hook: every operation, over the inputs of the specifications above *)

Next ==
    \/ NextRecords
    \/ NextSelection
    \/ NextRows
    \/ NextExpand
    \/ NextPersist
    \/ NextLifecycle
    \/ NextSetters

Spec == Init /\ [][Next]_vars

=============================================================================
